---- MODULE Spec2Model ----
(***************************************************************************)
(* Model of src/Arxiv/docx_to_latex.py: the DocxToLatexConverter run       *)
(* (constructor, notes, headers, body blocks, end of document), its list   *)
(* stack machine, its media extractor and its table composer.              *)
(*                                                                         *)
(* Strings of LaTeX are abstracted to tokens [k, a]: k is the kind of the   *)
(* line ("begin"/"end" of a list environment a, "item", "text", "fig" of   *)
(* the media file a, "tbl", "blank").  XML attributes are abstracted to     *)
(* records [t, n]: absent, unparseable text, or the decimal text of n.      *)
(***************************************************************************)
EXTENDS Integers, Sequences, FiniteSets, TLC

\* ------------------------------------------------------------------ bounds
MaxLevel == 2        \* deepest w:ilvl value a paragraph carries
MaxBlocks == 3       \* blocks converted in one run (notes and body together)
MaxDrawings == 2     \* w:drawing elements inside one block
MaxRows == 3         \* w:tr rows of a table
MaxCells == 3        \* w:tc cells of a table (all rows together)
MaxSpan == 3         \* largest w:gridSpan value
MaxText == 2         \* characters of one w:t text node

VARIABLES
  family,        \* which family of input documents the run reads
  pc,            \* position of the run
  numbering,     \* content of word/numbering.xml
  document,      \* word/document.xml: "absent", "nobody" or "ok"
  num_formats,   \* self.num_formats
  list_stack,    \* self.list_stack
  media_dir,     \* TRUE iff self.media_dir exists on disk
  media,         \* files of self.media_dir: base name -> bytes
  written,       \* log of the write_bytes calls of this run (base names)
  tex_written,   \* TRUE iff self.tex_path.write_text has run
  op,            \* the handler that ran last
  lines,         \* the lines the last handler returned
  balance,       \* \begin minus \end over the lines of all list-stack calls so far
  out_depth,     \* list \begin minus list \end over latex_lines
  out_unmatched, \* TRUE iff some prefix of latex_lines has more \end than \begin
  n_blocks,      \* blocks converted so far
  list_info,     \* the list_info of the paragraph converted last, None if none
  error,         \* the exception that ended the run, "" if none
  \* _convert_table, one table
  tpc,           \* position inside _convert_table
  rows_data,     \* rows_data: per row the recorded spans
  max_cols,      \* max_cols
  column_spec,   \* number of columns of column_spec, 0 before it is built
  table_rows,    \* emitted rows: per row the kinds of its line_parts
  n_cells,       \* cells scanned so far
  \* _format_run_text, one text node
  fpc,           \* position of the _format_run_text call
  run,           \* the w:r element: its w:rPr children
  text_node,     \* text_node.text, a sequence of characters
  formatted      \* the string _format_run_text returned, a sequence of tokens

runvars == <<family, pc, numbering, document, num_formats, list_stack, media_dir,
             media, written, tex_written, op, lines, balance, out_depth,
             out_unmatched, n_blocks, list_info, error>>
tblvars == <<tpc, rows_data, max_cols, column_spec, table_rows, n_cells>>
fmtvars == <<fpc, run, text_node, formatted>>
vars == <<runvars, tblvars, fmtvars>>

\* ------------------------------------------------------------ XML attributes
NoAttr == [t |-> "none", n |-> 0]      \* element or attribute absent
Garbage == [t |-> "text", n |-> 0]     \* a value int() rejects
Num(n) == [t |-> "int", n |-> n]       \* the decimal text of n

\* int(text): <<n>> or <<>> for ValueError
int(attr) == IF attr.t = "int" THEN <<attr.n>> ELSE <<>>

\* ------------------------------------------------------------- dictionaries
EmptyDict == [x \in {} |-> 0]
Put(d, k, v) == [x \in (DOMAIN d) \cup {k} |-> IF x = k THEN v ELSE d[x]]
Get(d, k, default) == IF k \in DOMAIN d THEN d[k] ELSE default

\* ------------------------------------------------------------------- runs
\* a w:r element: rPr is TRUE iff it has a w:rPr, b and i iff w:rPr has w:b
\* and w:i, u and vertAlign are the w:val of w:u and w:vertAlign ("absent"
\* when the element is missing, "" when only its w:val is)
Run(rPr, b, i, u, vertAlign) ==
  [rPr |-> rPr, b |-> b, i |-> i, u |-> u, vertAlign |-> vertAlign]
NoRun == Run(FALSE, FALSE, FALSE, "absent", "absent")

\* ----------------------------------------------------------------- lines
Begin(env) == [k |-> "begin", a |-> env]
End(env) == [k |-> "end", a |-> env]
Item == [k |-> "item", a |-> ""]
Text == [k |-> "text", a |-> ""]
Blank == [k |-> "blank", a |-> ""]
Fig(name) == [k |-> "fig", a |-> name]
Tbl == [k |-> "tbl", a |-> ""]

IsBegin(l) == l.k = "begin"
IsEnd(l) == l.k = "end"
IsFig(l) == l.k = "fig"
IsDirective(l) == l.k \in {"begin", "end"}

\* ------------------------------------------------------------- ListState
ListState(level, env, num_id) == [level |-> level, env |-> env, num_id |-> num_id]
None == <<>>
Some(x) == <<x>>

Top(s) == s[Len(s)]
Pop(s) == SubSeq(s, 1, Len(s) - 1)

\* _close_all_lists: pop every entry, one \end per entry
RECURSIVE CloseAll(_)
CloseAll(r) ==
  IF r.stack # <<>>
  THEN CloseAll([stack |-> Pop(r.stack),
                 lines |-> Append(r.lines, End(Top(r.stack).env))])
  ELSE r

_close_all_lists(stack) == CloseAll([stack |-> stack, lines |-> <<>>])

\* line 529-531: close lists deeper than the target level
RECURSIVE CloseDeeper(_, _)
CloseDeeper(r, target) ==
  IF r.stack # <<>> /\ Top(r.stack).level > target.level
  THEN CloseDeeper([stack |-> Pop(r.stack),
                    lines |-> Append(r.lines, End(Top(r.stack).env))], target)
  ELSE r

\* a same-level close that forgets its \end line
CloseSameLevelSilent(r, target) ==
  IF r.stack # <<>> /\ Top(r.stack).level = target.level
     /\ (Top(r.stack).env # target.env \/ Top(r.stack).num_id # target.num_id)
  THEN [stack |-> Pop(r.stack), lines |-> r.lines]
  ELSE r

\* line 533-537: same level but different environment or numbering
CloseSameLevel(r, target) ==
  IF r.stack # <<>> /\ Top(r.stack).level = target.level
     /\ (Top(r.stack).env # target.env \/ Top(r.stack).num_id # target.num_id)
  THEN [stack |-> Pop(r.stack), lines |-> Append(r.lines, End(Top(r.stack).env))]
  ELSE r

\* an open step that pushes the target's level instead of len(list_stack)
OpenLevelsAtTarget(r, target) ==
  IF r.stack = <<>> \/ Top(r.stack).level < target.level
  THEN [stack |-> Append(r.stack, ListState(target.level, target.env, target.num_id)),
        lines |-> Append(r.lines, Begin(target.env))]
  ELSE r

\* line 539-542: open new levels, each at level len(list_stack)
RECURSIVE OpenLevels(_, _)
OpenLevels(r, target) ==
  IF r.stack = <<>> \/ Top(r.stack).level < target.level
  THEN OpenLevels([stack |-> Append(r.stack,
                               ListState(Len(r.stack), target.env, target.num_id)),
                   lines |-> Append(r.lines, Begin(target.env))], target)
  ELSE r

\* line 543-554: the trailing if / elif / elif
FinalAdjust(r, target) ==
  IF r.stack = <<>> \/ Top(r.stack).level < target.level
  THEN [stack |-> Append(r.stack, ListState(target.level, target.env, target.num_id)),
        lines |-> Append(r.lines, Begin(target.env))]
  ELSE IF Top(r.stack).level = target.level
          /\ (Top(r.stack).env # target.env \/ Top(r.stack).num_id # target.num_id)
  THEN [stack |-> Append(Pop(r.stack), target),
        lines |-> r.lines \o <<End(Top(r.stack).env), Begin(target.env)>>]
  ELSE IF r.stack = <<>>
  THEN [stack |-> Append(r.stack, target), lines |-> Append(r.lines, Begin(target.env))]
  ELSE r

_sync_list_stack(stack, target) ==
  IF target = None
  THEN _close_all_lists(stack)
  ELSE FinalAdjust(
         OpenLevels(
           CloseSameLevel(
             CloseDeeper([stack |-> stack, lines |-> <<>>], target[1]),
             target[1]),
           target[1]),
         target[1])

\* ------------------------------------------------------- Package Index
\* line 193-200: the levels of one w:abstractNum; a w:lvl is
\* [ilvl |-> attribute, numFmt |-> format, "" when w:numFmt or its val is absent]
RECURSIVE LoadLevels(_, _)
LoadLevels(lvls, levels) ==
  IF lvls = <<>> THEN [raised |-> FALSE, levels |-> levels]
  ELSE LET lvl == Head(lvls) IN
       IF lvl.ilvl.t = "none" \/ lvl.numFmt = ""
       THEN LoadLevels(Tail(lvls), levels)
       ELSE IF int(lvl.ilvl) = <<>>
       THEN [raised |-> TRUE, levels |-> levels]
       ELSE LoadLevels(Tail(lvls), Put(levels, int(lvl.ilvl)[1], lvl.numFmt))

\* line 187-201: abstract_map
RECURSIVE LoadAbstracts(_, _)
LoadAbstracts(abstracts, abstract_map) ==
  IF abstracts = <<>> THEN [raised |-> FALSE, map |-> abstract_map]
  ELSE LET abstract == Head(abstracts)
           l == LoadLevels(abstract.lvls, EmptyDict)
       IN IF abstract.abstractNumId = ""
          THEN LoadAbstracts(Tail(abstracts), abstract_map)
          ELSE IF l.raised
          THEN [raised |-> TRUE, map |-> abstract_map]
          ELSE LoadAbstracts(Tail(abstracts),
                             Put(abstract_map, abstract.abstractNumId, l.levels))

\* line 203-213: num_map
RECURSIVE LoadNums(_, _, _)
LoadNums(nums, abstract_map, num_map) ==
  IF nums = <<>> THEN num_map
  ELSE LET num == Head(nums) IN
       IF num.numId = "" \/ num.abstractNumId = ""
       THEN LoadNums(Tail(nums), abstract_map, num_map)
       ELSE LoadNums(Tail(nums), abstract_map,
                     Put(num_map, num.numId,
                         Get(abstract_map, num.abstractNumId, EmptyDict)))

_load_numbering(member) ==
  IF ~member.present THEN [raised |-> FALSE, map |-> EmptyDict]
  ELSE LET a == LoadAbstracts(member.abstractNums, EmptyDict) IN
       IF a.raised THEN [raised |-> TRUE, map |-> EmptyDict]
       ELSE [raised |-> FALSE, map |-> LoadNums(member.nums, a.map, EmptyDict)]

\* the paragraph's level: int() of w:ilvl, 0 when absent or unparseable
ParagraphLevel(paragraph) ==
  IF paragraph.ilvl.t = "none" THEN 0
  ELSE IF int(paragraph.ilvl) = <<>> THEN 0
  ELSE int(paragraph.ilvl)[1]

\* an _extract_list_info whose missing format defaults to an ordered list
_extract_list_info_ordered(paragraph, formats) ==
  IF paragraph.numId \in {"absent", ""} THEN None
  ELSE LET level == ParagraphLevel(paragraph)
           fmt == Get(Get(formats, paragraph.numId, EmptyDict), level, "decimal")
           env == IF fmt = "bullet" THEN "itemize" ELSE "enumerate"
       IN Some(ListState(level, env, paragraph.numId))

\* line 501-521; numId "absent" stands for a missing w:pPr, w:numPr or w:numId
_extract_list_info(paragraph, formats) ==
  IF paragraph.numId \in {"absent", ""} THEN None
  ELSE LET level == ParagraphLevel(paragraph)
           fmt == Get(Get(formats, paragraph.numId, EmptyDict), level, "bullet")
           env == IF fmt = "bullet" THEN "itemize" ELSE "enumerate"
       IN Some(ListState(level, env, paragraph.numId))

\* ------------------------------------------------------ Media Extractor
\* word/_rels/document.xml.rels as _load_relationships reads it
relationships ==
  [id \in {"rId1", "rId2", "rId4", "rId5"} |->
     CASE id = "rId1" -> [type |-> "image", target |-> <<"media", "a.png">>]
       [] id = "rId2" -> [type |-> "image", target |-> <<"alt", "a.png">>]
       [] id = "rId4" -> [type |-> "hyperlink", target |-> <<"media", "a.png">>]
       [] id = "rId5" -> [type |-> "image", target |-> <<"media", "gone.png">>]]

\* the image members of the package and their bytes
zip ==
  [member \in {<<"word", "media", "a.png">>, <<"word", "alt", "a.png">>} |->
     IF member[2] = "media" THEN "A1" ELSE "A2"]

\* Path(target).name
Name(path) == path[Len(path)]

\* the disk as _convert_drawing sees it
Disk(dir, files, log, raised) ==
  [media_dir |-> dir, media |-> files, written |-> log, raised |-> raised]

\* a _convert_drawing that copies without looking for an existing file
_convert_drawing_overwrite(d, embed) ==
  IF embed = "" \/ embed \notin DOMAIN relationships THEN [d |-> d, block |-> <<>>]
  ELSE LET rel_info == relationships[embed]
           zip_member == <<"word">> \o rel_info.target
           dest == Name(rel_info.target)
       IN IF rel_info.type # "image" \/ zip_member \notin DOMAIN zip
          THEN [d |-> d, block |-> <<>>]
          ELSE IF ~d.media_dir
          THEN [d |-> Disk(d.media_dir, d.media, d.written, TRUE), block |-> <<>>]
          ELSE [d |-> Disk(d.media_dir, Put(d.media, dest, zip[zip_member]),
                           Append(d.written, dest), FALSE),
                block |-> <<Fig(dest)>>]

\* line 393-442; embed "" stands for a drawing without container, blip or
\* r:embed; raised is the FileNotFoundError of write_bytes into a missing
\* directory
_convert_drawing(d, embed) ==
  IF embed = "" \/ embed \notin DOMAIN relationships THEN [d |-> d, block |-> <<>>]
  ELSE LET rel_info == relationships[embed]
           zip_member == <<"word">> \o rel_info.target
           dest == Name(rel_info.target)
       IN IF rel_info.type # "image" \/ zip_member \notin DOMAIN zip
          THEN [d |-> d, block |-> <<>>]
          ELSE IF d.media_dir /\ dest \in DOMAIN d.media
          THEN [d |-> d, block |-> <<Fig(dest)>>]
          ELSE IF ~d.media_dir
          THEN [d |-> Disk(d.media_dir, d.media, d.written, TRUE), block |-> <<>>]
          ELSE [d |-> Disk(d.media_dir, Put(d.media, dest, zip[zip_member]),
                           Append(d.written, dest), FALSE),
                block |-> <<Fig(dest)>>]

\* line 291-316 with 334-355: the drawings of the runs, in order
RECURSIVE _collect_runs(_, _, _)
_collect_runs(d, drawings, blocks) ==
  IF drawings = <<>> \/ d.raised THEN [d |-> d, blocks |-> blocks]
  ELSE LET r == _convert_drawing(d, Head(drawings))
       IN _collect_runs(r.d, Tail(drawings), blocks \o r.block)

\* --------------------------------------------------------- Block Dispatcher
\* the converter's mutable state as the handlers see it
Conv(stack, d) == [list_stack |-> stack, d |-> d]

\* line 246-289; the heading, title and plain text lines are all the token
\* Text (the paragraph style only picks the wrapper of the text)
_convert_paragraph(c, paragraph, in_table, suppress_list) ==
  LET info == IF suppress_list THEN None
              ELSE _extract_list_info(paragraph, num_formats)
      s == IF ~in_table THEN _sync_list_stack(c.list_stack, info)
           ELSE [stack |-> c.list_stack, lines |-> <<>>]
      runs == _collect_runs(c.d, paragraph.drawings, <<>>)
      body == IF info # None /\ ~suppress_list
              THEN IF ~paragraph.text /\ runs.blocks = <<>>
                   THEN s.lines
                   ELSE s.lines \o <<Item>> \o runs.blocks
              ELSE LET l == s.lines \o (IF paragraph.text THEN <<Text>> ELSE <<>>)
                                    \o runs.blocks
                   IN IF l # <<>> /\ l[Len(l)] = Blank THEN l
                      ELSE IF ~in_table /\ l # <<>> THEN Append(l, Blank)
                      ELSE l
  IN [c |-> Conv(s.stack, runs.d), sync |-> s.lines,
      lines |-> IF runs.d.raised THEN <<>> ELSE body]

\* a _convert_block that forgets the lists at a section break
_convert_block_keep(c, element) ==
  IF element.tag = "p" THEN _convert_paragraph(c, element, FALSE, FALSE)
  ELSE IF element.tag = "tbl"
  THEN LET closed == _close_all_lists(c.list_stack)
           cells == _collect_runs(c.d, element.drawings, <<>>)
       IN [c |-> Conv(closed.stack, cells.d), sync |-> closed.lines,
           lines |-> IF cells.d.raised THEN <<>>
                     ELSE closed.lines \o <<Tbl>> \o cells.blocks \o <<Blank>>]
  ELSE [c |-> c, sync |-> <<>>, lines |-> <<>>]

\* line 231-244; the table's own lines are the token Tbl followed by the
\* figure blocks of its cells (_convert_table_cell calls _collect_runs)
_convert_block(c, element) ==
  IF element.tag = "p" THEN _convert_paragraph(c, element, FALSE, FALSE)
  ELSE IF element.tag = "tbl"
  THEN LET closed == _close_all_lists(c.list_stack)
           cells == _collect_runs(c.d, element.drawings, <<>>)
       IN [c |-> Conv(closed.stack, cells.d), sync |-> closed.lines,
           lines |-> IF cells.d.raised THEN <<>>
                     ELSE closed.lines \o <<Tbl>> \o cells.blocks \o <<Blank>>]
  ELSE IF element.tag = "sectPr"
  THEN LET closed == _close_all_lists(c.list_stack)
       IN [c |-> Conv(closed.stack, c.d), sync |-> closed.lines, lines |-> closed.lines]
  ELSE [c |-> c, sync |-> <<>>, lines |-> <<>>]

\* ------------------------------------------------------------------ inputs
Absent == [present |-> FALSE, abstractNums |-> <<>>, nums |-> <<>>]
Lvl(ilvl, fmt) == [ilvl |-> ilvl, numFmt |-> fmt]
AbstractNum(id, lvls) == [abstractNumId |-> id, lvls |-> lvls]
NumRef(id, ref) == [numId |-> id, abstractNumId |-> ref]

\* word/numbering.xml: absent, well-formed, sparse, and with a non-integer ilvl
Numberings ==
  { Absent,
    [present |-> TRUE,
     abstractNums |-> << AbstractNum("0", <<Lvl(Num(0), "decimal"), Lvl(Num(1), "bullet")>>) >>,
     nums |-> << NumRef("1", "0"), NumRef("2", "7") >>],
    [present |-> TRUE,
     abstractNums |-> << AbstractNum("0", <<Lvl(NoAttr, "decimal"), Lvl(Num(0), ""),
                                           Lvl(Garbage, ""), Lvl(Num(1), "lowerLetter"),
                                           Lvl(Num(-1), "decimal")>>),
                         AbstractNum("", <<Lvl(Num(0), "decimal")>>) >>,
     nums |-> << NumRef("1", "0"), NumRef("2", "0"), NumRef("", "0"), NumRef("1", "") >>],
    [present |-> TRUE,
     abstractNums |-> << AbstractNum("0", <<Lvl(Garbage, "decimal")>>) >>,
     nums |-> << NumRef("1", "0") >>] }

ILvls == {NoAttr, Garbage} \cup {Num(n) : n \in -1..MaxLevel}
Embeds == {"", "rId1", "rId2", "rId4", "rId5", "rId9"}
DrawingSeqs == UNION {[1..n -> Embeds] : n \in 0..MaxDrawings}

Element(tag, numId, ilvl, text, drawings) ==
  [tag |-> tag, numId |-> numId, ilvl |-> ilvl, text |-> text, drawings |-> drawings]

\* body and note children of the two families of documents: list structure
\* without drawings, drawings with flat lists
Blocks(f) ==
  IF f = "lists"
  THEN {Element("p", id, l, t, <<>>) : id \in {"absent", "", "1", "2"}, l \in ILvls,
                                       t \in BOOLEAN}
       \cup {Element(tag, "absent", NoAttr, FALSE, <<>>) : tag \in {"tbl", "sectPr", "other"}}
  ELSE {Element("p", id, NoAttr, FALSE, ds) : id \in {"absent", "1"}, ds \in DrawingSeqs}
       \cup {Element("tbl", "absent", NoAttr, FALSE, ds) : ds \in DrawingSeqs}

\* the w:p children of the header part, at most one
Headers(f) ==
  IF f = "lists"
  THEN {<<>>} \cup {<<Element("p", id, NoAttr, TRUE, <<>>)>> : id \in {"absent", "1"}}
  ELSE {<<>>} \cup {<<Element("p", "absent", NoAttr, FALSE, ds)>> : ds \in DrawingSeqs}

\* the media directory before the run: missing, empty, or holding a.png
Disks == {Disk(FALSE, EmptyDict, <<>>, FALSE), Disk(TRUE, EmptyDict, <<>>, FALSE),
          Disk(TRUE, Put(EmptyDict, "a.png", "OLD"), <<>>, FALSE)}

\* ----------------------------------------------------------- bookkeeping
Delta(l) == IF l.k = "begin" THEN 1 ELSE IF l.k = "end" THEN -1 ELSE 0

RECURSIVE Sum(_)
Sum(ls) == IF ls = <<>> THEN 0 ELSE Delta(Head(ls)) + Sum(Tail(ls))

\* the lowest depth any prefix of ls reaches, starting at depth
RECURSIVE Lowest(_, _)
Lowest(depth, ls) ==
  IF ls = <<>> THEN depth
  ELSE LET rest == Lowest(depth + Delta(Head(ls)), Tail(ls))
       IN IF depth < rest THEN depth ELSE rest

OpOf(element) ==
  IF element.tag # "p" THEN element.tag
  ELSE IF _extract_list_info(element, num_formats) = None THEN "para" ELSE "listpara"

TargetOf(element) ==
  IF element.tag = "p" THEN _extract_list_info(element, num_formats) ELSE None

Here == Conv(list_stack, Disk(media_dir, media, written, FALSE))

\* the handler's effect on self and on the disk
Effect(r) ==
  /\ list_stack' = r.c.list_stack
  /\ media_dir' = r.c.d.media_dir
  /\ media' = r.c.d.media
  /\ written' = r.c.d.written
  /\ lines' = r.lines
  /\ balance' = balance + Sum(r.sync)

\* latex_lines.extend(ls)
Extend(ls) ==
  /\ out_depth' = out_depth + Sum(ls)
  /\ out_unmatched' = (out_unmatched \/ Lowest(out_depth, ls) < 0)

\* ----------------------------------------------------------------- the run
Init ==
  /\ family \in {"lists", "media"}
  /\ pc = "new"
  /\ numbering \in (IF family = "lists" THEN Numberings ELSE {Absent})
  /\ document \in {"absent", "nobody", "ok"}
  /\ \E d \in (IF family = "lists" THEN {Disk(FALSE, EmptyDict, <<>>, FALSE)} ELSE Disks) :
       /\ media_dir = d.media_dir
       /\ media = d.media
       /\ written = d.written
  /\ num_formats = EmptyDict
  /\ list_stack = <<>>
  /\ tex_written = FALSE
  /\ op = "none"
  /\ lines = <<>>
  /\ balance = 0
  /\ out_depth = 0
  /\ out_unmatched = FALSE
  /\ n_blocks = 0
  /\ list_info = None
  /\ error = ""
  /\ tpc = "idle"
  /\ rows_data = <<>>
  /\ max_cols = 0
  /\ column_spec = 0
  /\ table_rows = <<>>
  /\ n_cells = 0
  /\ fpc = "idle"
  /\ run = NoRun
  /\ text_node = <<>>
  /\ formatted = <<>>

\* line 84-92: __init__ up to the creation of the empty list stack
Construct ==
  /\ pc = "new"
  /\ LET n == _load_numbering(numbering) IN
       /\ num_formats' = n.map
       /\ pc' = IF n.raised THEN "failed" ELSE "footnotes"
       /\ error' = IF n.raised THEN "ValueError" ELSE ""
  /\ list_stack' = <<>>
  /\ op' = "__init__"
  /\ lines' = <<>>
  /\ UNCHANGED <<family, numbering, document, media_dir, media, written, tex_written,
                 balance, out_depth, out_unmatched, n_blocks, list_info, tblvars, fmtvars>>

\* line 226-227: one child of a footnote or endnote through _convert_block
NoteBlock ==
  /\ pc \in {"footnotes", "endnotes"}
  /\ n_blocks < MaxBlocks
  /\ \E element \in Blocks(family) :
       LET r == _convert_block(Here, element) IN
         /\ Effect(r)
         /\ op' = OpOf(element)
         /\ list_info' = TargetOf(element)
         /\ pc' = IF r.c.d.raised THEN "failed" ELSE pc
         /\ error' = IF r.c.d.raised THEN "FileNotFoundError" ELSE ""
  /\ n_blocks' = n_blocks + 1
  /\ UNCHANGED <<family, numbering, document, num_formats, tex_written, out_depth,
                 out_unmatched, tblvars, fmtvars>>

\* line 216-229: _load_notes returns (also when the member is absent)
NotesDone ==
  /\ pc \in {"footnotes", "endnotes"}
  /\ pc' = IF pc = "footnotes" THEN "endnotes" ELSE "convert"
  /\ op' = "_load_notes"
  /\ lines' = <<>>
  /\ UNCHANGED <<family, numbering, document, num_formats, list_stack, media_dir, media,
                 written, tex_written, balance, out_depth, out_unmatched, n_blocks,
                 list_info, error, tblvars, fmtvars>>

\* line 98-106: read the root member, create the media directory, preamble
ConvertOpen ==
  /\ pc = "convert"
  /\ pc' = IF document = "ok" THEN "headers" ELSE "failed"
  /\ error' = IF document = "absent" THEN "KeyError"
              ELSE IF document = "nobody" THEN "ValueError" ELSE ""
  /\ media_dir' = (media_dir \/ document = "ok")
  /\ op' = "convert"
  /\ lines' = <<>>
  /\ UNCHANGED <<family, numbering, document, num_formats, list_stack, media, written,
                 tex_written, balance, out_depth, out_unmatched, n_blocks, list_info,
                 tblvars, fmtvars>>

\* line 156-158: the header paragraphs, converted with suppress_list
RECURSIVE HeaderParagraphs(_, _, _)
HeaderParagraphs(c, paragraphs, result) ==
  IF paragraphs = <<>> THEN [c |-> c, sync |-> SelectSeq(result, IsDirective), lines |-> result]
  ELSE LET r == _convert_paragraph(c, Head(paragraphs), FALSE, TRUE)
       IN HeaderParagraphs(r.c, Tail(paragraphs), result \o r.lines)

\* line 107-108: _convert_headers and the blank line after it
ConvertHeaders ==
  /\ pc = "headers"
  /\ \E paragraphs \in Headers(family) :
       LET r == HeaderParagraphs(Here, paragraphs, <<>>) IN
         /\ Effect(r)
         /\ Extend(Append(r.lines, Blank))
  /\ pc' = "body"
  /\ op' = "_convert_headers"
  /\ list_info' = None
  /\ UNCHANGED <<family, numbering, document, num_formats, tex_written, n_blocks, error,
                 tblvars, fmtvars>>

\* line 110-111: one child of the body through _convert_block
BodyBlock ==
  /\ pc = "body"
  /\ n_blocks < MaxBlocks
  /\ \E element \in Blocks(family) :
       LET r == _convert_block(Here, element) IN
         /\ Effect(r)
         /\ Extend(r.lines)
         /\ op' = OpOf(element)
         /\ list_info' = TargetOf(element)
  /\ n_blocks' = n_blocks + 1
  /\ UNCHANGED <<family, pc, numbering, document, num_formats, tex_written, error, tblvars, fmtvars>>

\* line 113-116: close the lists, \end{document}, write the .tex file
EndDocument ==
  /\ pc = "body"
  /\ LET r == _close_all_lists(list_stack) IN
       /\ list_stack' = r.stack
       /\ lines' = r.lines
       /\ balance' = balance + Sum(r.lines)
       /\ Extend(r.lines)
  /\ tex_written' = TRUE
  /\ pc' = "done"
  /\ op' = "end_document"
  /\ list_info' = None
  /\ UNCHANGED <<family, numbering, document, num_formats, media_dir, media, written,
                 n_blocks, error, tblvars, fmtvars>>

Next ==
  \/ Construct
  \/ NoteBlock
  \/ NotesDone
  \/ ConvertOpen
  \/ ConvertHeaders
  \/ BodyBlock
  \/ EndDocument

Spec == Init /\ [][Next]_vars

\* ------------------------------------------------------------ Table Composer
\* a w:tc is its w:gridSpan attribute; NoAttr stands for a cell without
\* w:tcPr, w:gridSpan or w:val (all three record span 1)
SpanAttrs == {NoAttr, Garbage} \cup {Num(n) : n \in -1..MaxSpan}
TableRows(cells) == UNION {[1..n -> SpanAttrs] : n \in 0..cells}

\* line 450-458: the span recorded for one cell
GridSpan(attr) ==
  IF attr.t = "none" THEN 1
  ELSE IF int(attr) = <<>> THEN 1
  ELSE int(attr)[1]

RECURSIVE sum(_)
sum(spans) == IF spans = <<>> THEN 0 ELSE Head(spans) + sum(Tail(spans))

\* a maximum that keeps the last value
max_last(a, b) == b

\* max(max_cols, span_total) of line 462
max(a, b) == IF a > b THEN a ELSE b

InitTable ==
  /\ family = "table"
  /\ pc = "idle"
  /\ numbering = Absent
  /\ document = "ok"
  /\ media_dir = FALSE
  /\ media = EmptyDict
  /\ written = <<>>
  /\ num_formats = EmptyDict
  /\ list_stack = <<>>
  /\ tex_written = FALSE
  /\ op = "none"
  /\ lines = <<>>
  /\ balance = 0
  /\ out_depth = 0
  /\ out_unmatched = FALSE
  /\ n_blocks = 0
  /\ list_info = None
  /\ error = ""
  /\ tpc = "scan"
  /\ rows_data = <<>>
  /\ max_cols = 0
  /\ column_spec = 0
  /\ table_rows = <<>>
  /\ n_cells = 0
  /\ fpc = "idle"
  /\ run = NoRun
  /\ text_node = <<>>
  /\ formatted = <<>>

\* line 447-463: one w:tr of the first loop
ScanRow ==
  /\ tpc = "scan"
  /\ Len(rows_data) < MaxRows
  /\ \E tr \in TableRows(MaxCells - n_cells) :
       LET row_cells == [i \in 1..Len(tr) |-> GridSpan(tr[i])]
           span_total == IF sum(row_cells) = 0 THEN 1 ELSE sum(row_cells)
       IN /\ max_cols' = max(max_cols, span_total)
          /\ rows_data' = Append(rows_data, row_cells)
          /\ n_cells' = n_cells + Len(tr)
  /\ UNCHANGED <<tpc, column_spec, table_rows, runvars, fmtvars>>

\* line 465-468: the first loop is over; max_cols floor and column_spec
BuildColumnSpec ==
  /\ tpc = "scan"
  /\ max_cols' = IF max_cols = 0 THEN 1 ELSE max_cols
  /\ column_spec' = max_cols'
  /\ tpc' = "emit"
  /\ UNCHANGED <<rows_data, table_rows, n_cells, runvars, fmtvars>>

\* line 469-478: one row of the second loop, one line part per cell
EmitRow ==
  /\ tpc = "emit"
  /\ Len(table_rows) < Len(rows_data)
  /\ LET row == rows_data[Len(table_rows) + 1]
         line_parts == [i \in 1..Len(row) |->
                          IF row[i] > 1 THEN "multicolumn" ELSE "cell"]
     IN table_rows' = Append(table_rows, line_parts)
  /\ UNCHANGED <<tpc, rows_data, max_cols, column_spec, n_cells, runvars, fmtvars>>

\* line 479-480: \end{longtable} and return
EndTable ==
  /\ tpc = "emit"
  /\ Len(table_rows) = Len(rows_data)
  /\ tpc' = "done"
  /\ UNCHANGED <<rows_data, max_cols, column_spec, table_rows, n_cells, runvars, fmtvars>>

NextTable ==
  \/ ScanRow
  \/ BuildColumnSpec
  \/ EmitRow
  \/ EndTable

SpecTable == InitTable /\ [][NextTable]_vars

\* ------------------------------------------------------------ Run Formatter
Chars == {"a", "%", "_", "\\", "{"}
Texts == UNION {[1..n -> Chars] : n \in 0..MaxText}

\* line 48-59: the replacement of one character, one token per replacement
replacements(ch) ==
  CASE ch = "\\" -> "\\textbackslash{}"
    [] ch = "%" -> "\\%"
    [] ch = "_" -> "\\_"
    [] ch = "{" -> "\\{"
    [] OTHER -> ch

\* line 46-60
escape_latex(text) == [n \in 1..Len(text) |-> replacements(text[n])]

\* str.lower() on the w:val values of w:u
lower(v) == IF v \in {"NONE", "None"} THEN "none" ELSE v

\* f"\\{wrapper}{{{escaped}}}"
Wrap(wrapper, escaped) == <<"\\", wrapper, "{">> \o escaped \o <<"}">>

\* line 363-370: the wrappers list
Wrappers(r) ==
  (IF r.b THEN <<"textbf">> ELSE <<>>)
  \o (IF r.i THEN <<"emph">> ELSE <<>>)
  \o (IF r.u # "absent" /\ lower(r.u) # "none" THEN <<"underline">> ELSE <<>>)

\* line 371-377: the vertical alignment wraps the escaped text at once
VertAlign(r, escaped) ==
  IF r.vertAlign = "superscript" THEN Wrap("textsuperscript", escaped)
  ELSE IF r.vertAlign = "subscript" THEN Wrap("textsubscript", escaped)
  ELSE escaped

\* a loop that applies the wrappers from the last to the first
RECURSIVE ApplyWrappersReversed(_, _)
ApplyWrappersReversed(wrappers, escaped) ==
  IF wrappers = <<>> THEN escaped
  ELSE ApplyWrappersReversed(SubSeq(wrappers, 1, Len(wrappers) - 1),
                             Wrap(wrappers[Len(wrappers)], escaped))

\* line 378-379: for wrapper in wrappers
RECURSIVE ApplyWrappers(_, _)
ApplyWrappers(wrappers, escaped) ==
  IF wrappers = <<>> THEN escaped
  ELSE ApplyWrappers(Tail(wrappers), Wrap(Head(wrappers), escaped))

\* line 357-380
_format_run_text(text, r) ==
  IF ~r.rPr THEN escape_latex(text)
  ELSE ApplyWrappers(Wrappers(r), VertAlign(r, escape_latex(text)))

Runs ==
  {NoRun} \cup {Run(TRUE, b, i, u, v) : b \in BOOLEAN, i \in BOOLEAN,
                                         u \in {"absent", "", "single", "none", "NONE"},
                                         v \in {"absent", "", "superscript", "subscript",
                                                "baseline"}}

InitFormat ==
  /\ family = "run"
  /\ pc = "idle"
  /\ numbering = Absent
  /\ document = "ok"
  /\ media_dir = FALSE
  /\ media = EmptyDict
  /\ written = <<>>
  /\ num_formats = EmptyDict
  /\ list_stack = <<>>
  /\ tex_written = FALSE
  /\ op = "none"
  /\ lines = <<>>
  /\ balance = 0
  /\ out_depth = 0
  /\ out_unmatched = FALSE
  /\ n_blocks = 0
  /\ list_info = None
  /\ error = ""
  /\ tpc = "idle"
  /\ rows_data = <<>>
  /\ max_cols = 0
  /\ column_spec = 0
  /\ table_rows = <<>>
  /\ n_cells = 0
  /\ fpc = "ready"
  /\ run \in Runs
  /\ text_node \in Texts
  /\ formatted = <<>>

\* line 339: texts.append(self._format_run_text(child, run))
FormatRunText ==
  /\ fpc = "ready"
  /\ formatted' = _format_run_text(text_node, run)
  /\ fpc' = "done"
  /\ UNCHANGED <<run, text_node, runvars, tblvars>>

NextFormat == FormatRunText

SpecFormat == InitFormat /\ [][NextFormat]_vars

\* ================================================================= claims
\* the stack positions the last handler popped: those above the lowest depth
\* its lines reach, counted from the stack it started with
Popped(before, ls) == (Len(before) + Lowest(0, ls) + 1)..Len(before)
\* the stack positions the last handler pushed
Pushed(before, after, ls) == (Len(before) + Lowest(0, ls) + 1)..Len(after)

\* C1: after every _sync_list_stack and _close_all_lists call, the number of
\* list \begin directives returned so far minus the number of list \end
\* directives returned so far equals the length of list_stack.
C1_OpenMinusCloseIsDepth == balance = Len(list_stack)

\* a list paragraph whose synchronisation closed and opened environments
\* and left two or more open
C1_Witness ==
  /\ op = "listpara"
  /\ Len(list_stack) >= 2
  /\ SelectSeq(lines, IsEnd) # <<>>
  /\ SelectSeq(lines, IsBegin) # <<>>

\* C2: a table, a section break, a non-list paragraph and the end of the
\* document leave the list stack empty, and the handler returns one \end per
\* entry that was open, innermost first.
C2_DrainStep ==
  (op' \in {"tbl", "sectPr", "para", "end_document"} /\ pc' # "failed")
    => /\ list_stack' = <<>>
       /\ SelectSeq(lines', IsEnd) =
            [i \in 1..Len(list_stack) |-> End(list_stack[Len(list_stack) + 1 - i].env)]
       /\ SelectSeq(lines', IsBegin) = <<>>

C2_Drained == [][C2_DrainStep]_vars

\* a table that closed two nested lists of different environments
C2_Witness ==
  /\ op = "tbl"
  /\ list_stack = <<>>
  /\ Len(lines) >= 3
  /\ IsEnd(lines[1]) /\ IsEnd(lines[2])
  /\ lines[1].a # lines[2].a

\* C3: _sync_list_stack never closes an entry and reopens an identical entry
\* at the same stack position, and two consecutive list paragraphs with the
\* same target have no \begin or \end between their items.
C3_NoReopenStep ==
  (op' = "listpara" /\ pc' # "failed")
    => /\ \A i \in Popped(list_stack, lines') :
            ~(i <= Len(list_stack') /\ list_stack'[i] = list_stack[i])
       /\ (op = "listpara" /\ list_info' = list_info)
            => SelectSeq(lines', IsDirective) = <<>>

C3_NoRedundantReopen == [][C3_NoReopenStep]_vars

\* C4: the list stack is empty when convert() starts to emit header and body
\* content, and latex_lines never holds an \end without an earlier \begin.
C4_RunStartsEmpty ==
  /\ pc = "headers" => list_stack = <<>>
  /\ ~out_unmatched

\* C5: the column count of column_spec is the maximum row span-sum, at least
\* 1; it is built from all rows before any row is emitted; every emitted row
\* has exactly one line part per cell.
RECURSIVE MaxSpanSum(_)
MaxSpanSum(rows) ==
  IF rows = <<>> THEN 1
  ELSE LET rest == MaxSpanSum(Tail(rows))
       IN IF sum(Head(rows)) > rest THEN sum(Head(rows)) ELSE rest

C5_State ==
  /\ tpc \in {"emit", "done"} => column_spec = MaxSpanSum(rows_data)
  /\ table_rows # <<>> => tpc \in {"emit", "done"}
  /\ Len(table_rows) <= Len(rows_data)
  /\ \A i \in 1..Len(table_rows) : Len(table_rows[i]) = Len(rows_data[i])
  /\ tpc = "done" => Len(table_rows) = Len(rows_data)

C5_Step ==
  table_rows' # table_rows
    => /\ column_spec >= 1
       /\ column_spec' = column_spec
       /\ rows_data' = rows_data

C5_ColumnCount == [](C5_State) /\ [][C5_Step]_vars

\* span-sums [2, 3, 1]: three columns, three rows of one cell each
C5_Witness ==
  /\ tpc = "done"
  /\ rows_data = << <<2>>, <<3>>, <<1>> >>
  /\ column_spec = 3
  /\ table_rows = << <<"multicolumn">>, <<"multicolumn">>, <<"cell">> >>

\* C6: a package without word/document.xml or without its body writes no
\* .tex file and no media file at any point of the run, and never gets past
\* the opening of convert().
C6_NoPartialOutput ==
  document # "ok"
    => /\ ~tex_written
       /\ written = <<>>
       /\ pc \notin {"headers", "body", "done"}

\* C7: the media directory is append-only and first-write-wins: a file that
\* exists keeps its bytes, write_bytes runs only for names that do not exist
\* yet, no file is removed, and every figure block names an existing file.
C7_MediaStep ==
  /\ \A f \in DOMAIN media : f \in DOMAIN media' /\ media'[f] = media[f]
  /\ Len(written') >= Len(written)
  /\ \A i \in (Len(written) + 1)..Len(written') :
       /\ written'[i] \notin DOMAIN media
       /\ \A j \in (Len(written) + 1)..Len(written') : written'[j] = written'[i] => j = i
  /\ \A i \in 1..Len(lines') : IsFig(lines'[i]) => lines'[i].a \in DOMAIN media'

C7_FirstWriteWins == [][C7_MediaStep]_vars

\* one block with two images of base name a.png: one write, two figure blocks
C7_Witness ==
  /\ written = <<"a.png">>
  /\ Len(SelectSeq(lines, IsFig)) = 2
  /\ media["a.png"] \in {"A1", "A2"}

\* C8: a list paragraph whose numbering identifier or level has no format in
\* num_formats gets the itemize environment and opens only itemize lists.
C8_DefaultBullet ==
  (op = "listpara"
   /\ (list_info[1].num_id \notin DOMAIN num_formats
       \/ list_info[1].level \notin DOMAIN num_formats[list_info[1].num_id]))
    => /\ list_info[1].env = "itemize"
       /\ \A i \in 1..Len(lines) : IsBegin(lines[i]) => lines[i].a = "itemize"

\* a numbering member that knows the identifier but not the level
C8_Witness ==
  /\ op = "listpara"
  /\ list_info[1].num_id \in DOMAIN num_formats
  /\ DOMAIN num_formats[list_info[1].num_id] # {}
  /\ list_info[1].level \notin DOMAIN num_formats[list_info[1].num_id]
  /\ list_info[1].env = "itemize"
  /\ SelectSeq(lines, IsBegin) # <<>>

\* the columns a recorded cell occupies in its emitted row
RECURSIVE Occupied(_)
Occupied(row) ==
  IF row = <<>> THEN 0
  ELSE (IF Head(row) > 1 THEN Head(row) ELSE 1) + Occupied(Tail(row))

\* C9: every recorded cell has a span of at least 1, and no emitted row
\* occupies more columns than column_spec has.
C9_SpanAtLeastOne ==
  /\ \A r \in 1..Len(rows_data) : \A c \in 1..Len(rows_data[r]) : rows_data[r][c] >= 1
  /\ \A r \in 1..Len(table_rows) : Occupied(rows_data[r]) <= column_spec

\* C10: after _sync_list_stack with a present target the top of the stack is
\* the target, and every entry pushed is one level deeper than the entry
\* below it (level 0 at the bottom).
C10_TopStep ==
  (op' = "listpara" /\ pc' # "failed")
    => /\ list_stack' # <<>>
       /\ Top(list_stack') = list_info'[1]
       /\ \A i \in Pushed(list_stack, list_stack', lines') :
            list_stack'[i].level = IF i = 1 THEN 0 ELSE list_stack'[i - 1].level + 1

C10_TopIsTarget == [][C10_TopStep]_vars

\* C11: in every reachable state the list stack has no gaps: the entry at
\* 0-based position i has level i, so levels rise by one from bottom to top.
C11_LevelIsPosition ==
  \A i \in 1..Len(list_stack) : list_stack[i].level = i - 1

\* a list paragraph that jumped two or more levels at once
C11_Witness ==
  /\ op = "listpara"
  /\ Len(list_stack) >= 3
  /\ Len(SelectSeq(lines, IsBegin)) >= 2

\* the style flags of the run as the claim names them
Bold == run.rPr /\ run.b
Italic == run.rPr /\ run.i
Underlined == run.rPr /\ run.u # "absent" /\ run.u \notin {"none", "NONE"}
Raised == run.rPr /\ run.vertAlign \in {"superscript", "subscript"}
RaisedCommand == IF run.vertAlign = "superscript" THEN "textsuperscript" ELSE "textsubscript"
Opt(flag, wrapper, s) == IF flag THEN Wrap(wrapper, s) ELSE s

\* C12 as claimed: the escaped text is wrapped once per set flag in the
\* order bold, emphasis, underline, superscript/subscript, so bold is
\* innermost and superscript/subscript outermost.
C12_RaisedOutermost ==
  fpc = "done"
    => formatted = Opt(Raised, RaisedCommand,
                     Opt(Underlined, "underline",
                       Opt(Italic, "emph",
                         Opt(Bold, "textbf", escape_latex(text_node)))))

\* C12 as amended: the escaped text is wrapped once per set flag; the
\* superscript/subscript wrapper is applied first, directly around the
\* escaped text, then bold, emphasis and underline, so underline is outermost.
C12_RaisedInnermost ==
  fpc = "done"
    => formatted = Opt(Underlined, "underline",
                     Opt(Italic, "emph",
                       Opt(Bold, "textbf",
                         Opt(Raised, RaisedCommand, escape_latex(text_node)))))

\* a bold, italic, underlined superscript run whose text needs escaping
C12_Witness ==
  /\ fpc = "done"
  /\ Bold /\ Italic /\ Underlined /\ Raised
  /\ text_node = <<"a", "_">>
  /\ formatted = <<"\\", "underline", "{", "\\", "emph", "{", "\\", "textbf", "{",
                   "\\", "textsuperscript", "{", "a", "\\_", "}", "}", "}", "}">>
  /\ run.vertAlign = "superscript"

\* C13: a non-integer numeric attribute never aborts the run: a cell's
\* gridSpan falls back to span 1, a paragraph's ilvl to level 0, and a
\* non-integer ilvl of a level definition in the numbering member does not
\* make the constructor raise.
C13_NeverAborts ==
  /\ GridSpan(Garbage) = 1
  /\ ParagraphLevel(Element("p", "1", Garbage, TRUE, <<>>)) = 0
  /\ op = "__init__" => (pc # "failed" /\ error = "")

====
